---------------------------- MODULE Spec2Model ----------------------------
(***************************************************************************)
(* A model of the plant-irrigation controller: src/code.py (pump control,  *)
(* dispensing, moisture sweep, watering loop, the /water and /moisture     *)
(* endpoints, main) and src/lib/webserver.py (client queue, accept task,   *)
(* workers, request parsing, dispatch, static routing).                    *)
(*                                                                         *)
(* The program runs on one cooperative scheduler: a task runs from one     *)
(* await to the next without interruption.  Every action below is one such *)
(* uninterrupted run of one task.                                          *)
(*                                                                         *)
(* Representation of text.  A request is kept in tokenised form: the       *)
(* request line is the sequence of its whitespace-separated words, a path  *)
(* is the sequence of its "/" separators and names, an argument string is  *)
(* the sequence of its "&"-separated segments, a segment is <<>> (empty),  *)
(* <<key>> (no "=") or <<key, value>>, and an argument value is the        *)
(* sequence of its characters.  Moisture values and millilitres are kept   *)
(* in hundredths (round(scaled, 2) has that resolution).                   *)
(***************************************************************************)
EXTENDS Integers, Sequences, FiniteSets, TLC

VARIABLES
    pin,              \* label2pin[l].value for l in a, b, c
    client_queue,     \* the deque of accepted clients, oldest first
    accepted,         \* number of clients accepted so far; clients are 1..accepted
    socket,           \* per client: "none" (not accepted yet), "open", "closed"
    wk,               \* per worker: where its coroutine is suspended, and its locals
    ev,               \* the handle_connection call that ended in the last step, if any
    actual_moisture,  \* the global written by watering_loop
    wl,               \* the watering loop: where it is suspended, and its locals
    main              \* "running", or "stopped" once gather in main has raised

vars == <<pin, client_queue, accepted, socket, wk, ev, actual_moisture, wl, main>>

(***************************************************************************)
(* Bounds of the model.                                                    *)
(***************************************************************************)
MaxClients == 1     \* clients accepted in Spec and SpecLoop
MaxHttpClients == 2 \* clients accepted in SpecHttp
MaxBacklog == 6     \* clients accepted in SpecServer
MaxSweeps == 2      \* moisture sweeps started by the watering loop
MaxStaticClients == 2 \* clients accepted in SpecStatic

(***************************************************************************)
(* Program constants.                                                      *)
(***************************************************************************)
WORKERS == 5
QueueMaxLen == 5
Hundredths == 100
mlpp == 1
min_ns == 20000000
max_ns == 80000000
TickLimit == 10
PollTimeout == 1000000000
NotFoundCode == 404

Workers == 1 .. WORKERS
Labels == {"a", "b", "c"}
i2abc == <<"a", "b", "c">>
target_moisture == <<60, 60, 60>>
http_version == "HTTP/1.1"

None == <<"<None>">>
NoClient == 0

(***************************************************************************)
(* Pump controller and the synchronous parts of dispense_water.            *)
(***************************************************************************)
start_pump(pins, pump) == [pins EXCEPT ![pump] = TRUE]

stop_pump(pins, pump) == [pins EXCEPT ![pump] = FALSE]

\* The except clause of dispense_water: stop the pump, then re-raise.  With a
\* label that is no key of label2pin, stop_pump itself raises KeyError.
dispense_except_skip(pins, pump, exc) == [pins |-> pins, out |-> "raise", exc |-> exc]

dispense_except(pins, pump, exc) ==
    IF pump \in Labels
    THEN [pins |-> stop_pump(pins, pump), out |-> "raise", exc |-> exc]
    ELSE [pins |-> pins, out |-> "raise", exc |-> "KeyError"]

\* dispense_water from its call to its await: sample_tof (tofFault: the
\* sensor read raises), then start_pump, then the task suspends in the sleep.
dispense_enter(pins, pump, tofFault) ==
    IF tofFault THEN dispense_except(pins, pump, "TofError")
    ELSE IF pump \notin Labels THEN dispense_except(pins, pump, "KeyError")
    ELSE [pins |-> start_pump(pins, pump), out |-> "sleep", exc |-> ""]

\* dispense_water from the end of its sleep: the sleep returns and the pump
\* is stopped, or the sleep raises (sleepFault) and the except clause runs.
dispense_resume(pins, pump, sleepFault) ==
    IF sleepFault THEN dispense_except(pins, pump, "SleepError")
    ELSE [pins |-> stop_pump(pins, pump), out |-> "return", exc |-> ""]

(***************************************************************************)
(* The client queue: collections.deque((), 5).                             *)
(***************************************************************************)
deque_append_unbounded(q, x) == Append(q, x)

\* appendleft: the new client goes to the end popleft takes from.
deque_appendleft(q, x) ==
    IF Len(q) >= QueueMaxLen THEN <<x>> \o SubSeq(q, 1, Len(q) - 1) ELSE <<x>> \o q

deque_append(q, x) ==
    IF Len(q) >= QueueMaxLen THEN Append(Tail(q), x) ELSE Append(q, x)

(***************************************************************************)
(* extract_request.                                                        *)
(***************************************************************************)
NoneRequest == [path |-> None, method |-> None, headers |-> None, kwargs |-> None]

\* extract_args on one argument string, given the kwargs so far.
RECURSIVE extract_args(_, _)
extract_args(kwargs, segs) ==
    IF segs = <<>> THEN kwargs
    ELSE LET arg == Head(segs)
             kw == IF arg = <<>> THEN kwargs
                   ELSE (arg[1] :> (IF Len(arg) >= 2 THEN arg[2] ELSE <<>>)) @@ kwargs
         IN extract_args(kw, Tail(segs))

RECURSIVE extract_body(_, _)
extract_body(kwargs, lines) ==
    IF lines = <<>> THEN kwargs
    ELSE extract_body(extract_args(kwargs, Head(lines)), Tail(lines))

RECURSIVE extract_headers(_, _)
extract_headers(headers, lines) ==
    IF lines = <<>> THEN headers
    ELSE LET line == Head(lines)
         IN extract_headers(IF line = <<>> THEN headers
                            ELSE (line[1] :> line[2]) @@ headers, Tail(lines))

\* raw.line: the words of the first line; raw.line[2] is [path, args];
\* raw.headers: the other header lines; raw.body: the lines of the body.
\* The query string of the request line is split off the path and dropped:
\* extract_args is called on body lines only.
extract_request(raw) ==
    IF Len(raw.line) # 3 THEN NoneRequest
    ELSE [path |-> raw.line[2].path,
          method |-> raw.line[1],
          headers |-> extract_headers(<<>>, raw.headers),
          kwargs |-> extract_body(<<>>, raw.body)]

(***************************************************************************)
(* path2html and the Router table.                                         *)
(***************************************************************************)
Files == {<<"index.html">>, <<"error.html">>}

RouterTable_no_water == [p \in {<<>>} |-> <<"index.html">>]

RouterTable == [p \in {<<>>, <<"water">>} |-> <<"index.html">>]

\* A response body: the contents of a file of /html, the str() of a list of
\* readings, or a literal text.
Body(kind, name, value) == [kind |-> kind, name |-> name, value |-> value]

Contents(file) == Body("file", file, <<>>)

RECURSIVE lstrip(_)
lstrip(path) == IF path # <<>> /\ Head(path) = "/" THEN lstrip(Tail(path)) ELSE path

RECURSIVE rstrip(_)
rstrip(path) ==
    IF path # <<>> /\ path[Len(path)] = "/"
    THEN rstrip(SubSeq(path, 1, Len(path) - 1)) ELSE path

strip(path) == rstrip(lstrip(path))

\* hops counts the recursive calls made through the Router table.
RECURSIVE path2html(_)
path2html(path) ==
    LET p == strip(path) IN
    IF p \notin Files
    THEN IF p \in DOMAIN RouterTable
         THEN LET r == path2html(RouterTable[p]) IN [r EXCEPT !.hops = r.hops + 1]
         ELSE [html |-> Contents(<<"error.html">>), rc |-> "404 Not Found", hops |-> 0]
    ELSE [html |-> Contents(p), rc |-> "200 OK", hops |-> 0]


(***************************************************************************)
(* The endpoints of src/code.py and WebAPI.handle_api.  A handler result   *)
(* is a record: kind "none" (no value), "tuple" (code, text), "str"        *)
(* (a body), "raise" (an exception leaves the handler) or "dispense" (the  *)
(* handler has reached its call of dispense_water).                        *)
(***************************************************************************)
Result(kind, code, text, value, exc, pump, ml) ==
    [kind |-> kind, code |-> code, text |-> text, value |-> value,
     exc |-> exc, pump |-> pump, ml |-> ml]

NoBody == Body("", <<>>, <<>>)
RNone == Result("none", 0, "", NoBody, "", "", 0)
RTuple(code, text) == Result("tuple", code, text, NoBody, "", "", 0)
RStr(value) == Result("str", 0, "", value, "", "", 0)
RRaise(exc) == Result("raise", 0, "", NoBody, exc, "", 0)
RDispense(pump, ml) == Result("dispense", 0, "", NoBody, "", pump, ml)

\* A keyword argument of a handler: the value given, or the default None.
Arg(kwargs, key) == IF key \in DOMAIN kwargs THEN kwargs[key] ELSE None

lower_identity(ch) == ch

\* str.lower() on one character.
lower(ch) ==
    CASE ch = "A" -> "a" [] ch = "B" -> "b" [] ch = "C" -> "c" [] ch = "X" -> "x"
      [] OTHER -> ch

Digits == {"0", "1", "2", "3", "4", "5", "6", "7", "8", "9"}

DigitValue(ch) ==
    CASE ch = "0" -> 0 [] ch = "1" -> 1 [] ch = "2" -> 2 [] ch = "3" -> 3
      [] ch = "4" -> 4 [] ch = "5" -> 5 [] ch = "6" -> 6 [] ch = "7" -> 7
      [] ch = "8" -> 8 [] ch = "9" -> 9

\* float(volume), for the values of the model's requests: a non-empty string
\* of digits converts, anything else raises ValueError.
is_float(value) == value # <<>> /\ \A k \in 1 .. Len(value) : value[k] \in Digits

RECURSIVE DigitsValue(_)
DigitsValue(value) ==
    IF value = <<>> THEN 0
    ELSE 10 * DigitsValue(SubSeq(value, 1, Len(value) - 1)) + DigitValue(value[Len(value)])

to_float(value) == DigitsValue(value) * Hundredths

\* The test at the head of water(): either argument missing.
water_missing_both_only(pump, volume) == pump = None /\ volume = None

water_missing(pump, volume) == pump = None \/ volume = None

\* water(pump=None, volume=None), called as water(**kwargs).
water(kwargs) ==
    IF ~(DOMAIN kwargs \subseteq {"pump", "volume"}) THEN RRaise("TypeError")
    ELSE LET pump == Arg(kwargs, "pump")
             volume == Arg(kwargs, "volume")
         IN IF water_missing(pump, volume) THEN RTuple(NotFoundCode, "Not found")
            \* None[-1] and float(None) raise TypeError (reached only if the
            \* test above lets a None through)
            ELSE IF pump = None \/ volume = None THEN RRaise("TypeError")
            ELSE IF pump = <<>> THEN RRaise("IndexError")
            ELSE IF ~is_float(volume) THEN RRaise("ValueError")
            ELSE RDispense(lower(pump[Len(pump)]), to_float(volume))

\* moisture(), called as moisture(**kwargs): str(actual_moisture).
moisture(kwargs, readings) ==
    IF DOMAIN kwargs # {} THEN RRaise("TypeError") ELSE RStr(Body("str", <<>>, readings))

NoEndpoint == [path |-> None, method |-> "", func |-> ""]

endpoints(path) ==
    IF path = <<"/", "water">> THEN [path |-> path, method |-> "POST", func |-> "water"]
    ELSE IF path = <<"/", "moisture">>
    THEN [path |-> path, method |-> "GET", func |-> "moisture"]
    ELSE NoEndpoint

\* The registry is indexed, not asked with get: an unknown path raises.
handle_api_indexed(path, method, headers, kwargs, readings) ==
    LET endpoint == endpoints(path) IN
    IF endpoint = NoEndpoint THEN RRaise("KeyError")
    ELSE IF endpoint.method = method
    THEN IF endpoint.func = "water" THEN water(kwargs) ELSE moisture(kwargs, readings)
    ELSE RNone

\* The handler is called whatever the method of the request.
handle_api_any_method(path, method, headers, kwargs, readings) ==
    LET endpoint == endpoints(path) IN
    IF endpoint = NoEndpoint THEN RNone
    ELSE IF endpoint.func = "water" THEN water(kwargs) ELSE moisture(kwargs, readings)

handle_api(path, method, headers, kwargs, readings) ==
    LET endpoint == endpoints(path) IN
    IF endpoint = NoEndpoint THEN RNone
    ELSE IF endpoint.method = method
    THEN IF endpoint.func = "water" THEN water(kwargs) ELSE moisture(kwargs, readings)
    ELSE RNone

(***************************************************************************)
(* handle_connection, from the handler's result to the response.           *)
(***************************************************************************)
NoResponse == [version |-> "", rc |-> "", html |-> NoBody]

build_response(path, response) ==
    IF response.kind = "none"
    THEN [version |-> http_version, rc |-> path2html(path).rc, html |-> path2html(path).html]
    ELSE IF response.kind = "tuple"
    THEN [version |-> http_version,
          rc |-> ToString(response.code) \o response.text,
          html |-> path2html(IF response.code = 200 THEN path
                             ELSE <<"/", "error.html">>).html]
    ELSE [version |-> http_version, rc |-> "200 OK", html |-> response.value]


(***************************************************************************)
(* The state after construction: pumps off (a DigitalInOut output starts   *)
(* low), the queue empty, every worker about to popleft, actual_moisture   *)
(* [0, 0, 0], the watering loop at the start of its first sweep.           *)
(***************************************************************************)
NoRaw == [line |-> <<>>, headers |-> <<>>, body |-> <<>>]

ClientIds == 1 .. (MaxClients + MaxHttpClients + MaxBacklog + MaxStaticClients)

WorkerPopping ==
    [pc |-> "pop", client |-> NoClient, pump |-> "", ml |-> 0, raw |-> NoRaw]

WorkerReceiving(client) == [WorkerPopping EXCEPT !.pc = "recv", !.client = client]

WorkerDead == [WorkerPopping EXCEPT !.pc = "dead"]

NoEvent ==
    [client |-> NoClient, raw |-> NoRaw, outcome |-> "", exc |-> "",
     response |-> NoResponse]

Event(client, raw, outcome, exc, response) ==
    [client |-> client, raw |-> raw, outcome |-> outcome, exc |-> exc,
     response |-> response]

\* The locals of the sampling loop of moisture_readings, for the
\* specification that runs it poll by poll (SpecSense): wave is the signal
\* and poll interval of the position being sampled, now the time of the
\* last poll, done the measurements of the positions sampled in this sweep
\* (with the times at which the position was entered and left).
\* first and last are 0 for None.  The other specifications take the
\* measurement of a position as an input and leave these as they start.
NoWave == [dt |-> 0, flips |-> 0]

PollIdle ==
    [active |-> FALSE, wave |-> NoWave, last_value |-> FALSE, start |-> 0, now |-> 0,
     first |-> 0, last |-> 0, ticks |-> 0, done |-> <<>>]

LoopStart ==
    [pc |-> "sense", i |-> 0, results |-> <<>>, returned |-> <<>>, sweeps |-> 1,
     log |-> <<>>, exc |-> "", poll |-> PollIdle]

Init ==
    /\ pin = [l \in Labels |-> FALSE]
    /\ client_queue = <<>>
    /\ accepted = 0
    /\ socket = [c \in ClientIds |-> "none"]
    /\ wk = [w \in Workers |-> WorkerPopping]
    /\ ev = NoEvent
    /\ actual_moisture = <<0, 0, 0>>
    /\ wl = LoopStart
    /\ main = "running"

(***************************************************************************)
(* server_loop: one successful accept_connection and the append.           *)
(***************************************************************************)
Accept(limit) ==
    /\ main = "running"
    /\ accepted < limit
    /\ accepted' = accepted + 1
    /\ socket' = [socket EXCEPT ![accepted + 1] = "open"]
    /\ client_queue' = deque_append(client_queue, accepted + 1)
    /\ ev' = NoEvent
    /\ UNCHANGED <<pin, wk, actual_moisture, wl, main>>

(***************************************************************************)
(* worker.                                                                 *)
(***************************************************************************)
\* popleft succeeded; handle_connection suspends in recv_data until the
\* client's bytes are there.  (popleft on the empty queue raises IndexError,
\* the worker sleeps 0 and is where it was: no step.)
WorkerPop(w) ==
    /\ main = "running"
    /\ wk[w].pc = "pop"
    /\ client_queue # <<>>
    /\ wk' = [wk EXCEPT ![w] = WorkerReceiving(Head(client_queue))]
    /\ client_queue' = Tail(client_queue)
    /\ ev' = NoEvent
    /\ UNCHANGED <<pin, accepted, socket, actual_moisture, wl, main>>

\* Client.close.
close(sockets, client) == [sockets EXCEPT ![client] = "closed"]

\* What the worker does when handle_connection has returned: the next
\* iteration's popleft runs at once.
worker_after_return(w) ==
    IF client_queue # <<>>
    THEN /\ wk' = [wk EXCEPT ![w] = WorkerReceiving(Head(client_queue))]
         /\ client_queue' = Tail(client_queue)
    ELSE /\ wk' = [wk EXCEPT ![w] = WorkerPopping]
         /\ UNCHANGED client_queue

\* What the worker does when handle_connection has raised exc: IndexError is
\* caught (sleep 0, then the next iteration), anything else ends the task.
worker_after_raise(w, exc) ==
    IF exc = "IndexError"
    THEN wk' = [wk EXCEPT ![w] = WorkerPopping]
    ELSE wk' = [wk EXCEPT ![w] = WorkerDead]

\* handle_connection from the response of the handler to its return.
send_and_close(w, client, raw, path, response, sendFails) ==
    /\ socket' = close(socket, client)
    /\ ev' = Event(client, raw, IF sendFails THEN "send failed" ELSE "sent", "",
                   build_response(path, response))
    /\ worker_after_return(w)

\* handle_connection when an exception leaves it: nothing is sent or closed.
connection_raises(w, client, raw, exc) ==
    /\ ev' = Event(client, raw, "raised", exc, NoResponse)
    /\ worker_after_raise(w, exc)
    /\ UNCHANGED <<socket, client_queue>>

\* recv_data returns the request raw; extract_request, handle_api and the rest
\* of handle_connection run up to the next await.
WorkerRecv(w, raw, tofFault, sendFails) ==
    /\ main = "running"
    /\ wk[w].pc = "recv"
    /\ LET client == wk[w].client
           extracted == extract_request(raw)
           response == handle_api(extracted.path, extracted.method, extracted.headers,
                                  extracted.kwargs, actual_moisture)
       IN CASE response.kind = "raise" ->
                  /\ connection_raises(w, client, raw, response.exc)
                  /\ UNCHANGED pin
            [] response.kind = "dispense" ->
                  LET d == dispense_enter(pin, response.pump, tofFault) IN
                  /\ pin' = d.pins
                  /\ IF d.out = "sleep"
                     THEN /\ wk' = [wk EXCEPT ![w] =
                                       [pc |-> "sleep", client |-> client,
                                        pump |-> response.pump, ml |-> response.ml,
                                        raw |-> raw]]
                          /\ ev' = NoEvent
                          /\ UNCHANGED <<socket, client_queue>>
                     ELSE connection_raises(w, client, raw, d.exc)
            [] response.kind \in {"none", "tuple", "str"} /\ extracted.path = None ->
                  /\ socket' = close(socket, client)
                  /\ ev' = Event(client, raw, "dropped", "", NoResponse)
                  /\ worker_after_return(w)
                  /\ UNCHANGED pin
            [] OTHER ->
                  /\ send_and_close(w, client, raw, extracted.path, response, sendFails)
                  /\ UNCHANGED pin
    /\ UNCHANGED <<accepted, actual_moisture, wl, main>>

\* The sleep of dispense_water, called by water(), is over: the pump is
\* stopped, water() returns None, the static page for the path is sent.
\* With sleepFault the sleep raises instead.
WorkerWake(w, sleepFault, sendFails) ==
    /\ main = "running"
    /\ wk[w].pc = "sleep"
    /\ LET d == dispense_resume(pin, wk[w].pump, sleepFault)
           raw == wk[w].raw
       IN /\ pin' = d.pins
          /\ IF d.out = "return"
             THEN send_and_close(w, wk[w].client, raw, extract_request(raw).path, RNone,
                                 sendFails)
             ELSE connection_raises(w, wk[w].client, raw, d.exc)
    /\ UNCHANGED <<accepted, actual_moisture, wl, main>>


(***************************************************************************)
(* moisture_readings: the score of one position from what its sampling     *)
(* loop measured (ticks transitions, the first at time first, the last at  *)
(* time last, in ns; first and last are 0 when there was no transition).   *)
(* average = (last - first) / ticks is kept as the fraction it is: the     *)
(* clamp and the scaling are done on last - first, with the bounds times   *)
(* ticks.  The result is in hundredths, rounded to the nearest.            *)
(***************************************************************************)
clamp_identity(x, lo, hi) == x

clamp(x, lo, hi) == IF x < lo THEN lo ELSE IF x > hi THEN hi ELSE x

moisture_score(s) ==
    IF s.first = 0 \/ s.last = 0 THEN 0
    ELSE LET span == clamp(s.last - s.first, min_ns * s.ticks, max_ns * s.ticks)
             \* scaled * 100 = (span - min_ns * ticks) / den
             den == ((max_ns - min_ns) \div (100 * Hundredths)) * s.ticks
         IN (2 * (span - min_ns * s.ticks) + den) \div (2 * den)

(***************************************************************************)
(* watering_loop.                                                          *)
(***************************************************************************)
is_dry_or_equal(reading, target) == reading <= target * Hundredths

is_dry(reading, target) == reading < target * Hundredths

dose(reading, target) == (target * Hundredths - reading) * mlpp

LogEvent(op, pos, ml) == [op |-> op, pos |-> pos, ml |-> ml]

PinEvent(pins, pos) == LogEvent(IF pins[i2abc[pos + 1]] THEN "on" ELSE "off", pos, 0)

\* The for loop of watering_loop from position k to its next await: the
\* sleep of the first dispense it starts, or the 15 minute sleep.  sweep is
\* the list the loop iterates (actual_moisture as just assigned).
RECURSIVE loop_from_nowait(_, _, _, _, _)
loop_from_nowait(k, sweep, pins, log, tofFault) ==
    IF k > 2 THEN [pc |-> "sleep900", i |-> k, pins |-> pins, log |-> log, exc |-> ""]
    ELSE IF is_dry(sweep[k + 1], target_moisture[k + 1])
    THEN LET d == dispense_enter(pins, i2abc[k + 1], FALSE)
             called == Append(log, LogEvent("dispense", k,
                                            dose(sweep[k + 1], target_moisture[k + 1])))
         IN loop_from_nowait(k + 1, sweep, d.pins, Append(called, PinEvent(d.pins, k)),
                             tofFault)
    ELSE loop_from_nowait(k + 1, sweep, pins, log, tofFault)

RECURSIVE loop_from(_, _, _, _, _)
loop_from(k, sweep, pins, log, tofFault) ==
    IF k > 2 THEN [pc |-> "sleep900", i |-> k, pins |-> pins, log |-> log, exc |-> ""]
    ELSE IF is_dry(sweep[k + 1], target_moisture[k + 1])
    THEN LET d == dispense_enter(pins, i2abc[k + 1], tofFault)
             called == Append(log, LogEvent("dispense", k,
                                            dose(sweep[k + 1], target_moisture[k + 1])))
         IN [pc |-> IF d.out = "sleep" THEN "sleep" ELSE "dead", i |-> k,
             pins |-> d.pins, log |-> Append(called, PinEvent(d.pins, k)),
             exc |-> d.exc]
    ELSE loop_from(k + 1, sweep, pins, log, tofFault)

\* actual_moisture after the sampling of position i has ended with the
\* local list results: only the list moisture_readings returns is assigned.
publish_partial(current, results, i) == results

publish(current, results, i) == IF i = 2 THEN results ELSE current

\* moisture_readings after the sampling loop of position wl.i has ended with
\* the measurement s: the score is appended; after the last position the
\* sweep is returned and assigned, and the for loop of watering_loop runs.
\* poll is what the locals of the sampling loop are afterwards.
position_done(s, tofFault, poll) ==
    LET results == Append(wl.results, moisture_score(s)) IN
    /\ actual_moisture' = publish(actual_moisture, results, wl.i)
    /\ IF wl.i < 2
       THEN /\ wl' = [wl EXCEPT !.i = wl.i + 1, !.results = results, !.poll = poll]
            /\ UNCHANGED pin
       ELSE LET n == loop_from(0, results, pin, <<LogEvent("store", 0, 0)>>, tofFault)
            IN /\ wl' = [wl EXCEPT !.pc = n.pc, !.i = n.i, !.results = results,
                                   !.returned = results, !.log = n.log,
                                   !.exc = n.exc, !.poll = poll]
               /\ pin' = n.pins

\* The sampling loop of position wl.i ends with the measurement s.
LoopSample(s, tofFault) ==
    /\ main = "running"
    /\ wl.pc = "sense"
    /\ ~wl.poll.active
    /\ position_done(s, tofFault, wl.poll)
    /\ ev' = NoEvent
    /\ UNCHANGED <<client_queue, accepted, socket, wk, main>>

(***************************************************************************)
(* The sampling loop of moisture_readings, poll by poll.  Every run of the *)
(* task between two awaits of sleep(0) is one step.  The clock is read     *)
(* once per run: the reads of one run are closer together than the         *)
(* resolution the score has.  The code uses differences of clock readings  *)
(* only (and tests first and last for None): times are counted from an     *)
(* origin StartNs before the moment the position is entered.               *)
(***************************************************************************)
StartNs == 1000

\* The while condition, with the time elapsed at the moment of the test.
sampling_continues_eleven(ticks, elapsed) == ticks <= TickLimit /\ elapsed <= PollTimeout

sampling_continues(ticks, elapsed) == ticks < TickLimit /\ elapsed <= PollTimeout

\* Lines 92-98 and the first pass through the loop body for a position,
\* entered at time now: the value read in the body is the one just stored
\* in last_value, so no transition is counted; the task suspends.
begin_position(wave, now, done) ==
    [active |-> TRUE, wave |-> wave, last_value |-> FALSE, start |-> now, now |-> now,
     first |-> 0, last |-> 0, ticks |-> 0, done |-> done]

\* One pass through the loop body at time now; changed: the value read
\* differs from last_value.
poll_iteration(p, changed, now) ==
    IF changed
    THEN [p EXCEPT !.first = IF p.first = 0 THEN now ELSE p.first,
                   !.last = now,
                   !.ticks = p.ticks + 1,
                   !.last_value = ~p.last_value,
                   !.now = now]
    ELSE [p EXCEPT !.now = now]

\* The watering loop calls moisture_readings: position 0 is entered.
SenseBegin(wave) ==
    /\ main = "running"
    /\ wl.pc = "sense"
    /\ ~wl.poll.active
    /\ wl.i = 0
    /\ wl' = [wl EXCEPT !.poll = begin_position(wave, StartNs, <<>>)]
    /\ ev' = NoEvent
    /\ UNCHANGED <<pin, client_queue, accepted, socket, wk, actual_moisture, main>>

\* The task is resumed from sleep(0), wave.dt after the last poll.  The
\* while condition is tested.  If it holds the body runs (the signal of
\* the wave changes between two polls until it has changed wave.flips
\* times) and the task suspends again.  If not, the position is done, and
\* the next position is entered (with the signal nextWave) or the sweep is
\* returned.
SensePoll(tofFault, nextWave) ==
    /\ main = "running"
    /\ wl.pc = "sense"
    /\ wl.poll.active
    /\ LET p == wl.poll
           now == p.now + p.wave.dt
       IN IF sampling_continues(p.ticks, now - p.start)
          THEN /\ wl' = [wl EXCEPT !.poll = poll_iteration(p, p.ticks < p.wave.flips, now)]
               /\ UNCHANGED <<pin, actual_moisture>>
          ELSE LET s == [ticks |-> p.ticks, first |-> p.first, last |-> p.last,
                         start |-> p.start, stop |-> now]
                   done == Append(p.done, s)
               IN position_done(s, tofFault,
                                IF wl.i < 2 THEN begin_position(nextWave, StartNs, done)
                                ELSE [PollIdle EXCEPT !.done = done])
    /\ ev' = NoEvent
    /\ UNCHANGED <<client_queue, accepted, socket, wk, main>>

\* The sleep of the loop's dispense for position wl.i is over (or raises).
LoopWake(sleepFault, tofFault) ==
    /\ main = "running"
    /\ wl.pc = "sleep"
    /\ LET d == dispense_resume(pin, i2abc[wl.i + 1], sleepFault)
           log == Append(wl.log, PinEvent(d.pins, wl.i))
       IN IF d.out = "return"
          THEN LET n == loop_from(wl.i + 1, wl.returned, d.pins, log, tofFault)
               IN /\ wl' = [wl EXCEPT !.pc = n.pc, !.i = n.i, !.log = n.log,
                                      !.exc = n.exc]
                  /\ pin' = n.pins
          ELSE /\ wl' = [wl EXCEPT !.pc = "dead", !.log = log, !.exc = d.exc]
               /\ pin' = d.pins
    /\ ev' = NoEvent
    /\ UNCHANGED <<client_queue, accepted, socket, wk, actual_moisture, main>>

\* The 15 minute sleep is over: the next sweep starts.
LoopCycle(limit) ==
    /\ main = "running"
    /\ wl.pc = "sleep900"
    /\ wl.sweeps < limit
    /\ wl' = [wl EXCEPT !.pc = "sense", !.i = 0, !.results = <<>>, !.log = <<>>,
                        !.sweeps = wl.sweeps + 1]
    /\ ev' = NoEvent
    /\ UNCHANGED <<pin, client_queue, accepted, socket, wk, actual_moisture, main>>

(***************************************************************************)
(* main: asyncio.gather(Webserver(1337), watering_loop()) under            *)
(* asyncio.run.  When a task has ended with an exception, gather may raise *)
(* it: main ends, the event loop is left and no task is resumed again.     *)
(* (Whether and when gather notices depends on the asyncio library of the  *)
(* build; the step is therefore possible, not forced.)                     *)
(***************************************************************************)
GatherRaises ==
    /\ main = "running"
    /\ wl.pc = "dead" \/ \E w \in Workers : wk[w].pc = "dead"
    /\ main' = "stopped"
    /\ ev' = NoEvent
    /\ UNCHANGED <<pin, client_queue, accepted, socket, wk, actual_moisture, wl>>


(***************************************************************************)
(* The inputs of the model: requests, sensor measurements, faults.         *)
(***************************************************************************)
Target(path, args) == [path |-> path, args |-> args]

Request(method, path, args, body) ==
    [line |-> <<method, Target(path, args), "HTTP/1.1">>, headers |-> <<>>, body |-> body]

PumpA == <<"P", "u", "m", "p", "A">>
PumpB == <<"P", "u", "m", "p", "B">>
PumpX == <<"P", "u", "m", "p", "X">>
Ten == <<"1", "0">>
Water == <<"/", "water">>
Moisture == <<"/", "moisture">>

ReqTruncated == [line |-> <<"GET">>, headers |-> <<>>, body |-> <<>>]
ReqWaterA == Request("POST", Water, <<>>, << <<<<"pump", PumpA>>, <<"volume", Ten>>>> >>)
ReqWaterB == Request("POST", Water, <<>>, << <<<<"pump", PumpB>>, <<"volume", Ten>>>> >>)
ReqWaterNoPump == Request("POST", Water, <<>>, << <<<<"volume", Ten>>>> >>)
ReqWaterNoVolume == Request("POST", Water, <<>>, << <<<<"pump", PumpA>>>> >>)
ReqWaterNoArgs == Request("POST", Water, <<>>, <<>>)
ReqWaterQuery == Request("POST", Water, <<<<"pump", PumpA>>, <<"volume", Ten>>>>, <<>>)
ReqWaterEmptyPump == Request("POST", Water, <<>>, << <<<<"pump">>, <<"volume", Ten>>>> >>)
ReqWaterExtraKey ==
    Request("POST", Water, <<>>, << <<<<"volume", Ten>>, <<"x", <<"1">>>>>> >>)
ReqWaterBadVolume ==
    Request("POST", Water, <<>>, << <<<<"pump", PumpA>>, <<"volume", <<"a", "b", "c">>>>>> >>)
ReqWaterBadPump == Request("POST", Water, <<>>, << <<<<"pump", PumpX>>, <<"volume", Ten>>>> >>)
ReqMoisture == Request("GET", Moisture, <<>>, <<>>)
ReqMoistureQuery == Request("GET", Moisture, <<<<"x", <<"1">>>>>>, <<>>)
ReqMoistureBody == Request("GET", Moisture, <<>>, << <<<<"x", <<"1">>>>>> >>)
ReqGetWater == Request("GET", Water, <<>>, <<>>)
ReqRoot == Request("GET", <<"/">>, <<>>, <<>>)
ReqNoFile == Request("GET", <<"/", "nofile">>, <<>>, <<>>)

ReqGetWaterArgs == Request("GET", Water, <<>>, << <<<<"pump", PumpA>>, <<"volume", Ten>>>> >>)
ReqPostMoisture == Request("POST", Moisture, <<>>, <<>>)
ReqEmptyPath == Request("GET", <<>>, <<<<"x", <<"1">>>>>>, <<>>)
ReqWaterBare == Request("GET", <<"water">>, <<>>, <<>>)
ReqWaterSlash == Request("GET", <<"/", "water", "/">>, <<>>, <<>>)
ReqIndex == Request("GET", <<"/", "index.html">>, <<>>, <<>>)
ReqError == Request("GET", <<"/", "error.html">>, <<>>, <<>>)
ReqNested == Request("GET", <<"/", "a", "/", "b">>, <<>>, <<>>)

Requests ==
    {ReqTruncated, ReqWaterA, ReqWaterB, ReqWaterNoPump, ReqWaterNoVolume, ReqWaterNoArgs,
     ReqWaterQuery, ReqWaterEmptyPump, ReqWaterExtraKey, ReqWaterBadVolume,
     ReqWaterBadPump, ReqMoisture, ReqMoistureQuery, ReqMoistureBody, ReqGetWater,
     ReqRoot, ReqNoFile}

\* The requests of SpecServer, where the queue is what is looked at.
ServerRequests == {ReqTruncated, ReqMoisture}

\* The requests of SpecStatic: no handler is called for any of them.
StaticRequests ==
    {ReqGetWater, ReqGetWaterArgs, ReqPostMoisture, ReqRoot, ReqNoFile, ReqEmptyPath,
     ReqWaterBare, ReqWaterSlash, ReqIndex, ReqError, ReqNested}

\* What the sampling loop of one position can have measured: no transition,
\* or 10 transitions with an average period of 44, 56 and 62 ms.
Sample(ticks, first, last) == [ticks |-> ticks, first |-> first, last |-> last]

Samples ==
    {Sample(0, 0, 0), Sample(TickLimit, 1000, 1000 + 440000000),
     Sample(TickLimit, 1000, 1000 + 560000000), Sample(TickLimit, 1000, 1000 + 620000000)}

\* The signals of SpecSense, as the polls of one position see them: no
\* transition; one, two or a transition at every poll, 100 ms apart; a
\* transition at every poll, 10 ms and 50 ms apart.
Wave(dt, flips) == [dt |-> dt, flips |-> flips]

Waves ==
    {Wave(250000000, 0), Wave(100000000, 1), Wave(100000000, 2),
     Wave(100000000, TickLimit + 2), Wave(10000000, TickLimit + 2),
     Wave(50000000, TickLimit + 2)}

\* The samples of Spec: one below the target (40.0) and one above (70.0).
CoreSamples ==
    {Sample(TickLimit, 1000, 1000 + 440000000), Sample(TickLimit, 1000, 1000 + 620000000)}

\* The requests of Spec: a dispense, a read of the moisture and a request
\* whose handling ends the worker.
CoreRequests == {ReqWaterA, ReqMoisture, ReqWaterExtraKey}

(***************************************************************************)
(* The specifications.                                                     *)
(*   Spec        the whole process, with few requests and samples          *)
(*   SpecHttp    the HTTP server with every request of the model, while    *)
(*               the watering loop is not scheduled                        *)
(*   SpecLoop    the watering loop with every sample of the model, and     *)
(*               one client                                                *)
(*   SpecServer  the HTTP server with more clients than the queue holds    *)
(*   SpecStatic  the HTTP server with the requests that are answered with  *)
(*               static content                                            *)
(*   SpecSense   one cycle of the watering loop with the sampling loop of  *)
(*               moisture_readings run poll by poll                        *)
(***************************************************************************)
WorkerStep(requests) ==
    \E w \in Workers :
        \/ WorkerPop(w)
        \/ \E raw \in requests, tofFault \in BOOLEAN, sendFails \in BOOLEAN :
               WorkerRecv(w, raw, tofFault, sendFails)
        \/ \E sleepFault \in BOOLEAN, sendFails \in BOOLEAN :
               WorkerWake(w, sleepFault, sendFails)

LoopStep(samples, sweeps) ==
    \/ \E s \in samples, tofFault \in BOOLEAN : LoopSample(s, tofFault)
    \/ \E sleepFault \in BOOLEAN, tofFault \in BOOLEAN : LoopWake(sleepFault, tofFault)
    \/ LoopCycle(sweeps)

Next ==
    \/ Accept(MaxClients)
    \/ WorkerStep(CoreRequests)
    \/ LoopStep(CoreSamples, MaxSweeps)
    \/ GatherRaises

Spec == Init /\ [][Next]_vars

NextHttp ==
    \/ Accept(MaxHttpClients)
    \/ WorkerStep(Requests)
    \/ GatherRaises

SpecHttp == Init /\ [][NextHttp]_vars

NextLoop ==
    \/ Accept(MaxClients)
    \/ \E w \in Workers :
           \/ WorkerPop(w)
           \/ \E sendFails \in BOOLEAN : WorkerRecv(w, ReqMoisture, FALSE, sendFails)
    \/ LoopStep(Samples, MaxSweeps)
    \/ GatherRaises

SpecLoop == Init /\ [][NextLoop]_vars

NextServer ==
    \/ Accept(MaxBacklog)
    \/ \E w \in Workers :
           \/ WorkerPop(w)
           \/ \E raw \in ServerRequests, sendFails \in BOOLEAN :
                  WorkerRecv(w, raw, FALSE, sendFails)

SpecServer == Init /\ [][NextServer]_vars

NextStatic ==
    \/ Accept(MaxStaticClients)
    \/ \E w \in Workers :
           \/ WorkerPop(w)
           \/ \E raw \in StaticRequests, sendFails \in BOOLEAN :
                  WorkerRecv(w, raw, FALSE, sendFails)

SpecStatic == Init /\ [][NextStatic]_vars

NextSense ==
    \/ \E wave \in Waves : SenseBegin(wave)
    \/ \E nextWave \in Waves : SensePoll(FALSE, nextWave)
    \/ LoopWake(FALSE, FALSE)

SpecSense == Init /\ [][NextSense]_vars


(***************************************************************************)
(* Properties.                                                             *)
(***************************************************************************)
\* What extract_request and water() make of the request of an event.
EvRequest == extract_request(ev.raw)

\* C1: when a dispense_water call for a valid pump label ends, by returning
\* or by raising (the distance sample or the sleep failed), the pump of that
\* label is off as the caller goes on.  For a worker and for the watering
\* loop: the step in which the call ends leaves the pin low.
C1_PumpOffWhenDispenseEnds ==
    [][/\ \A w \in Workers :
             (wk[w].pc = "sleep" /\ wk'[w] # wk[w]) => ~pin'[wk[w].pump]
       /\ (ev'.outcome = "raised" /\ ev'.exc = "TofError") =>
             ~pin'[water(extract_request(ev'.raw).kwargs).pump]
       /\ (wl.pc = "sleep" /\ wl' # wl) => ~pin'[i2abc[wl.i + 1]]
       /\ (wl.pc # "dead" /\ wl'.pc = "dead") => ~pin'[i2abc[wl'.i + 1]]]_vars

\* A dispense called by water() has raised in its sleep, after the pump was
\* switched on, and the pump is off.
C1_Witness == ev.outcome = "raised" /\ ev.exc = "SleepError" /\ ~pin["a"]

\* C2: while a dispense_water call is suspended in its sleep, the pump it
\* switched on is on: no other task switches it off in between.
C2_PumpOnWhileSleeping ==
    /\ \A w \in Workers : wk[w].pc = "sleep" => pin[wk[w].pump]
    /\ wl.pc = "sleep" => pin[i2abc[wl.i + 1]]

\* C3: a failure while handling one connection is contained: no worker has
\* ended, and main is still running its tasks.
C3_FailureContained ==
    /\ \A w \in Workers : wk[w].pc # "dead"
    /\ main = "running"

\* C4: a failed dispense does not end the watering loop.
C4_LoopSurvives == wl.pc # "dead"

\* C5: the client whose handling has just ended has its socket closed,
\* whatever the outcome of the handling.
C5_ClosedWhenDone == ev.client # NoClient => socket[ev.client] = "closed"


\* The dispense calls a log records, and the calls a sweep asks for at its
\* first n positions: every position read strictly below 60, in order, with
\* 60 minus the reading (times mlpp = 1) as the amount.
IsDispense(e) == e.op = "dispense"

RECURSIVE ExpectedDispenses(_, _)
ExpectedDispenses(sweep, n) ==
    IF n = 0 THEN <<>>
    ELSE LET before == ExpectedDispenses(sweep, n - 1)
         IN IF sweep[n] < 6000
            THEN Append(before, LogEvent("dispense", n - 1, 6000 - sweep[n]))
            ELSE before

\* C6: in a watering cycle the loop calls dispense_water for position i if
\* and only if the reading of i is strictly below 60, in position order, with
\* (60 - reading) * 1 ml; readings [40, 70, 60] give one dispense, 20 ml to
\* position 0.
C6_WateringDecision ==
    /\ (wl.pc \in {"sleep", "dead"}) =>
          SelectSeq(wl.log, IsDispense) = ExpectedDispenses(wl.returned, wl.i + 1)
    /\ wl.pc = "sleep900" =>
          SelectSeq(wl.log, IsDispense) = ExpectedDispenses(wl.returned, 3)
    /\ (wl.pc = "sleep900" /\ wl.returned = <<4000, 7000, 6000>>) =>
          SelectSeq(wl.log, IsDispense) = <<LogEvent("dispense", 0, 2000)>>

\* The cycle with readings [40, 70, 60] has run to its 15 minute sleep.
C6_Witness ==
    /\ wl.pc = "sleep900"
    /\ wl.returned = <<4000, 7000, 6000>>
    /\ Len(wl.log) = 4

\* C7: the loop's dispenses are sequential.  In the log of a cycle the sweep
\* is stored first (and actual_moisture holds it from then on); every call
\* is followed by its pump event; a pump the loop switched on is switched
\* off before anything else is logged; the positions of the calls increase;
\* and a pump is on by the loop only while the loop is suspended in the
\* sleep of that one dispense.
C7_LoopSequential ==
    LET log == wl.log
        n == Len(wl.log)
    IN /\ n > 0 => (log[1].op = "store" /\ actual_moisture = wl.returned)
       /\ \A x \in 1 .. n : log[x].op = "store" => x = 1
       /\ \A x \in 1 .. n :
             log[x].op = "dispense" =>
                (x < n /\ log[x + 1].op \in {"on", "off"} /\ log[x + 1].pos = log[x].pos)
       /\ \A x \in 1 .. n :
             (log[x].op = "on" /\ x < n) =>
                (log[x + 1].op = "off" /\ log[x + 1].pos = log[x].pos)
       /\ \A x \in 1 .. n : \A y \in 1 .. n :
             (x < y /\ log[x].op = "dispense" /\ log[y].op = "dispense") =>
                log[x].pos < log[y].pos
       /\ (n > 0 /\ log[n].op = "on") => (wl.pc = "sleep" /\ wl.i = log[n].pos)
       /\ wl.pc = "sleep" => (n > 0 /\ log[n].op = "on")

\* The loop is in its dispense for position B, after the one for A has ended.
C7_Witness ==
    /\ wl.pc = "sleep"
    /\ wl.i = 1
    /\ \E x \in 1 .. Len(wl.log) : wl.log[x] = LogEvent("off", 0, 0)

\* The last n elements of a sequence.
LastN(q, n) == SubSeq(q, IF Len(q) > n THEN Len(q) - n + 1 ELSE 1, Len(q))

\* C8: the queue never holds more than 5 clients, and an accept leaves in
\* it the newest 5 of the clients it held plus the new one, in arrival order
\* (so an append to a full queue drops exactly the oldest).
C8_QueueBound ==
    /\ [](Len(client_queue) <= 5)
    /\ [][accepted' # accepted =>
             client_queue' = LastN(Append(client_queue, accepted'), 5)]_vars

\* A sixth client was appended to the full queue: the first one is gone.
C8_Witness == accepted = 6 /\ client_queue = <<2, 3, 4, 5, 6>>

\* C9: actual_moisture is [0, 0, 0] until the first sweep is returned and
\* the last returned sweep from then on, always three values; the body of
\* /moisture is that list; and it changes only in the step of the watering
\* loop that ends a sweep, never in a step of a worker.
C9_WholeSweep ==
    /\ [](/\ Len(actual_moisture) = 3
          /\ actual_moisture = IF wl.returned = <<>> THEN <<0, 0, 0>> ELSE wl.returned
          /\ (ev.client # NoClient /\ ev.response.html.kind = "str") =>
                ev.response.html.value = actual_moisture)
    /\ [][actual_moisture' # actual_moisture =>
             (wk' = wk /\ wl.pc = "sense" /\ wl.i = 2 /\ actual_moisture' = wl'.returned)]_vars

\* /moisture is answered while the second sweep is half done, with other
\* values than the first: the body is the first sweep.
C9_Witness ==
    /\ ev.outcome = "sent"
    /\ ev.response.html = Body("str", <<>>, wl.returned)
    /\ wl.sweeps = 2
    /\ wl.pc = "sense"
    /\ wl.i = 2
    /\ wl.results # SubSeq(wl.returned, 1, 2)

\* A handled POST /water in which pump or volume is not among the arguments.
WaterAbsent(e) ==
    /\ e.client # NoClient
    /\ extract_request(e.raw).path = <<"/", "water">>
    /\ extract_request(e.raw).method = "POST"
    /\ ~({"pump", "volume"} \subseteq DOMAIN extract_request(e.raw).kwargs)

MethodMismatch(e) ==
    /\ e.client # NoClient
    /\ \/ extract_request(e.raw).path = <<"/", "water">>
          /\ extract_request(e.raw).method # "POST"
       \/ extract_request(e.raw).path = <<"/", "moisture">>
          /\ extract_request(e.raw).method # "GET"

\* C11: a request whose path has an endpoint registered for another method
\* (GET /water, POST /moisture) gets no handler result and no handler call:
\* the handling ends in the step in which the request was read, no pin
\* changes in it, and the response is the static content of the path
\* (index.html 200 OK for /water, error.html 404 Not Found for /moisture),
\* never a method-not-allowed response.
C11_MethodMismatchStatic ==
    /\ [](MethodMismatch(ev) =>
            /\ ev.outcome \in {"sent", "send failed"}
            /\ ev.response =
                  IF EvRequest.path = <<"/", "water">>
                  THEN [version |-> "HTTP/1.1", rc |-> "200 OK",
                        html |-> Contents(<<"index.html">>)]
                  ELSE [version |-> "HTTP/1.1", rc |-> "404 Not Found",
                        html |-> Contents(<<"error.html">>)]
            /\ socket[ev.client] = "closed")
    /\ [][MethodMismatch(ev') =>
             /\ pin' = pin
             /\ \E w \in Workers : wk[w].pc = "recv" /\ wk[w].client = ev'.client]_vars

\* A GET /water that carries pump and volume has been answered with
\* index.html, with every pump off.
C11_Witness ==
    /\ ev.raw = ReqGetWaterArgs
    /\ ev.outcome = "sent"
    /\ ev.response.html = Contents(<<"index.html">>)
    /\ \A l \in Labels : ~pin[l]

\* The paths that name "" or "water" with or without surrounding slashes,
\* and paths of the model that name no file and no alias.
AliasPaths == {<<>>, <<"/">>, <<"water">>, <<"/", "water">>, <<"/", "water", "/">>}

NoFilePaths == {<<"/", "nofile">>, <<"/", "a", "/", "b">>, <<"/", "moisture">>}

\* C14: path2html gives index.html with "200 OK" for "" and "water", with
\* or without surrounding slashes, error.html with "404 Not Found" for a
\* path that names no file and no alias, and makes at most one alias hop.
\* Stated on the responses built from path2html and on its result for the
\* path of each handled request.
C14_StaticRouting ==
    (ev.client # NoClient /\ EvRequest.path # None) =>
        LET r == path2html(EvRequest.path) IN
        /\ r.hops <= 1
        /\ ev.response.html = r.html /\ ev.response.rc = r.rc
        /\ EvRequest.path \in AliasPaths =>
              (r.html = Contents(<<"index.html">>) /\ r.rc = "200 OK" /\ r.hops = 1)
        /\ EvRequest.path \in NoFilePaths =>
              (r.html = Contents(<<"error.html">>) /\ r.rc = "404 Not Found")

\* The path "" (the request line "GET ?x=1 HTTP/1.1") has been answered.
C14_Witness ==
    /\ ev.raw = ReqEmptyPath
    /\ ev.outcome = "sent"
    /\ ev.response.html = Contents(<<"index.html">>)
    /\ ev.response.rc = "200 OK"

\* C12: extract_request gives the path without its query string, the
\* method, and the arguments of the query string merged with those of the
\* body lines (later occurrences overwriting earlier ones); "GET
\* /moisture?x=1 HTTP/1.1" gives /moisture, GET and {x: "1"}; a first line
\* that is not three words gives four absent fields.  Stated on the request
\* of each handled connection.
C12_QueryParsed ==
    ev.client # NoClient =>
        IF Len(ev.raw.line) = 3
        THEN /\ EvRequest.path = ev.raw.line[2].path
             /\ EvRequest.method = ev.raw.line[1]
             /\ DOMAIN EvRequest.kwargs =
                   DOMAIN extract_body(extract_args(<<>>, ev.raw.line[2].args), ev.raw.body)
             /\ \A k \in DOMAIN EvRequest.kwargs :
                   EvRequest.kwargs[k] =
                      extract_body(extract_args(<<>>, ev.raw.line[2].args), ev.raw.body)[k]
             /\ ev.raw = ReqMoistureQuery =>
                   /\ EvRequest.path = <<"/", "moisture">>
                   /\ EvRequest.method = "GET"
                   /\ DOMAIN EvRequest.kwargs = {"x"}
        ELSE EvRequest = NoneRequest

\* A handled request that extract_request reports as unparsable.
Unparsable(e) == e.client # NoClient /\ extract_request(e.raw) = NoneRequest

\* C13: for an unparsable request nothing is sent, no handler is called (no
\* pin changes, the handling ends in the step that read the request), the
\* socket is closed, and the worker goes on dequeuing: it holds the client
\* that was at the head of the queue, or waits at popleft if there was none.
C13_SilentDrop ==
    /\ [](Unparsable(ev) =>
            /\ ev.outcome = "dropped"
            /\ ev.response = NoResponse
            /\ socket[ev.client] = "closed")
    /\ [][Unparsable(ev') =>
             /\ pin' = pin
             /\ \E w \in Workers :
                    /\ wk[w].pc = "recv" /\ wk[w].client = ev'.client
                    /\ IF client_queue = <<>>
                       THEN wk'[w] = WorkerPopping
                       ELSE wk'[w] = WorkerReceiving(Head(client_queue))]_vars

\* A truncated request was dropped and its worker has taken the next client.
C13_Witness ==
    /\ ev.raw = ReqTruncated
    /\ ev.outcome = "dropped"
    /\ ev.client = 1
    /\ \E w \in Workers : wk[w] = WorkerReceiving(2)
    /\ \A w \in Workers : wk[w].pc \in {"pop", "recv"}

\* C15: POST /water with pump=PumpB and volume=10.  The handler reaches one
\* dispense_water call, for label b with 10.0 ml (1000 hundredths), which
\* switches pin b on; an answer to the request is index.html with "200 OK"
\* and is made in the step in which that dispense returns (pin b is off
\* then); the only other ends of the handling are a fault of the distance
\* sample or of the sleep.
C15_WaterBEndToEnd ==
    /\ [][\A w \in Workers :
             (wk[w].pc = "recv" /\ wk'[w].pc = "sleep" /\ wk'[w].raw = ReqWaterB) =>
                /\ wk'[w].pump = "b"
                /\ wk'[w].ml = 1000
                /\ wk'[w].client = wk[w].client
                /\ pin' = [pin EXCEPT !["b"] = TRUE]]_vars
    /\ [][(ev'.client # NoClient /\ ev'.raw = ReqWaterB) =>
             \/ /\ ev'.outcome \in {"sent", "send failed"}
                /\ ev'.response = [version |-> "HTTP/1.1", rc |-> "200 OK",
                                   html |-> Contents(<<"index.html">>)]
                /\ \E w \in Workers :
                       /\ wk[w].pc = "sleep" /\ wk[w].client = ev'.client
                       /\ wk[w].pump = "b" /\ wk[w].ml = 1000
                /\ ~pin'["b"]
                /\ socket'[ev'.client] = "closed"
             \/ /\ ev'.outcome = "raised"
                /\ ev'.exc \in {"TofError", "SleepError"}]_vars

\* The request has been answered after its dispense.
C15_Witness ==
    /\ ev.raw = ReqWaterB
    /\ ev.outcome = "sent"
    /\ ev.response.rc = "200 OK"
    /\ ev.response.html = Contents(<<"index.html">>)
    /\ ~pin["b"]

\* The clients in a queue, and the workers that hold a client (between its
\* popleft and the end of its handle_connection).
Queued(q) == {q[k] : k \in 1 .. Len(q)}

Holds(w, c) == wk[w].pc \in {"recv", "sleep"} /\ wk[w].client = c

\* C18: clients leave the queue in the order the accept task queued them,
\* and each is handled by at most one worker.  Clients are numbered in
\* accept order: the queue is increasing; a client enters it only in its
\* accept; a worker takes the head of the queue, which then leaves the
\* queue; a client a worker holds or has handled is not in the queue, and is
\* older than every queued one; no two workers hold the same client.
C18_FifoExclusive ==
    /\ [](/\ \A x \in 1 .. Len(client_queue) : \A y \in 1 .. Len(client_queue) :
                x < y => client_queue[x] < client_queue[y]
          /\ \A w \in Workers : \A c \in Queued(client_queue) :
                wk[w].pc \in {"recv", "sleep"} => wk[w].client < c
          /\ \A w \in Workers : \A v \in Workers : \A c \in 1 .. accepted :
                (Holds(w, c) /\ Holds(v, c)) => w = v
          /\ ev.client # NoClient =>
                /\ \A c \in Queued(client_queue) : ev.client < c
                /\ \A w \in Workers : ~Holds(w, ev.client))
    /\ [][\A w \in Workers :
             (wk'[w].client # wk[w].client /\ wk'[w].client # NoClient) =>
                /\ client_queue # <<>>
                /\ wk'[w].client = Head(client_queue)
                /\ client_queue' = Tail(client_queue)
                /\ \A v \in Workers : ~Holds(v, wk'[w].client)]_vars
    /\ [][\A c \in Queued(client_queue') :
             c \notin Queued(client_queue) => (c = accepted + 1 /\ accepted' = c)]_vars

\* Two workers hold the two oldest clients while a third client is queued.
C18_Witness ==
    /\ client_queue = <<3>>
    /\ \E w \in Workers : \E v \in Workers :
          w # v /\ wk[w] = WorkerReceiving(1) /\ wk[v] = WorkerReceiving(2)

\* C19: a pump is on only while a dispense_water call for its label is
\* suspended in its sleep and will be resumed: the tasks are running, and a
\* worker or the watering loop is in the sleep of a dispense for that label.
C19_PumpOnOnlyWhileDispensing ==
    \A l \in Labels :
        pin[l] =>
            /\ main = "running"
            /\ \/ \E w \in Workers : wk[w].pc = "sleep" /\ wk[w].pump = l
               \/ wl.pc = "sleep" /\ i2abc[wl.i + 1] = l

\* C20: every accepted client whose socket is open is in the queue and held
\* by no worker, or out of the queue and held by exactly one worker.
C20_OpenSocketsReferenced ==
    \A c \in 1 .. accepted :
        socket[c] = "open" =>
            \/ c \in Queued(client_queue) /\ \A w \in Workers : ~Holds(w, c)
            \/ /\ c \notin Queued(client_queue)
               /\ \E w \in Workers : Holds(w, c) /\ \A v \in Workers : Holds(v, c) => v = w

\* A measurement s of one position: ticks transitions, the first at
\* s.first, the last at s.last.  Its average period P is Span(s) / s.ticks.
\* ClampedExcess(s) is (clamp(P, 20000000, 80000000) - 20000000) * s.ticks,
\* and ScoreUnit(s) is what 0.01 of the score is worth on that scale:
\* 60000000 / 100 / 100 * s.ticks.  PeriodLeq compares two average periods
\* by quotient and remainder.
Span(s) == s.last - s.first

ClampedExcess(s) ==
    (IF Span(s) < 20000000 * s.ticks THEN 20000000 * s.ticks
     ELSE IF Span(s) > 80000000 * s.ticks THEN 80000000 * s.ticks
     ELSE Span(s)) - 20000000 * s.ticks

ScoreUnit(s) == 6000 * s.ticks

PeriodLeq(s, t) ==
    \/ Span(s) \div s.ticks < Span(t) \div t.ticks
    \/ /\ Span(s) \div s.ticks = Span(t) \div t.ticks
       /\ (Span(s) % s.ticks) * t.ticks <= (Span(t) % t.ticks) * s.ticks

\* The positions of this sweep that are done and had a transition.
Measured == {k \in 1 .. Len(wl.poll.done) : wl.poll.done[k].ticks >= 1}

\* The parts of C16 about the range, the ends, the middle and the order of
\* the scores (in hundredths).
ScoreShape ==
    \A k \in Measured :
        LET s == wl.poll.done[k]
            x == wl.results[k]
        IN /\ 0 <= x /\ x <= 10000
           /\ Span(s) <= 20000000 * s.ticks => x = 0
           /\ Span(s) >= 80000000 * s.ticks => x = 10000
           /\ Span(s) = 50000000 * s.ticks => x = 5000
           /\ \A j \in Measured :
                 PeriodLeq(wl.poll.done[j], s) => wl.results[j] <= x

=============================================================================
